---- MODULE Spec2Model ----
(***************************************************************************)
(* Model of src/in_memory_db.py: class InMemoryDB, an in-memory key-value  *)
(* store with one pending transaction buffer.                              *)
(*                                                                         *)
(* Python values are tagged records so that None, ints and dicts can be    *)
(* compared with each other.  A dict is a function from the keys it holds *)
(* to their values; no code of the class observes the order of the keys.   *)
(***************************************************************************)
EXTENDS Integers, Sequences, FiniteSets, TLC

\* ------------------------------------------------------------------ bounds
NumKeys == 2
MaxVal  == 2
MaxGets == 2
NumKeysSmall == 1
MaxValSmall  == 1

KeyNames == <<"A", "B", "C", "D", "E">>
Keys == {KeyNames[i] : i \in 1..NumKeys}

\* ------------------------------------------------------- Python values
None == [t |-> "None"]
PyInt(v) == [t |-> "int", v |-> v]
Dict(f) == [t |-> "dict", d |-> f]
EmptyDict == Dict([k \in {} |-> None])

Vals == {PyInt(v) : v \in 1..MaxVal}

\* the keys and values of the specifications with two objects or two callers
KeysSmall == {KeyNames[i] : i \in 1..NumKeysSmall}
ValsSmall == {PyInt(v) : v \in 1..MaxValSmall}

\* key in d
dict_contains(d, key) == key \in DOMAIN d.d

\* d.get(key, default)
dict_get(d, key, default) == IF dict_contains(d, key) THEN d.d[key] ELSE default

\* d[key] = val
dict_setitem(d, key, val) ==
    Dict([k \in DOMAIN d.d \cup {key} |-> IF k = key THEN val ELSE d.d[k]])

\* ------------------------------------------------ outcomes of a call
Return(v) == [kind |-> "return", value |-> v]
Raise(msg) == [kind |-> "raise", type |-> "Exception", msg |-> msg]

MsgPut      == "No transaction in progress - cannot call put() outside of a transaction"
MsgBegin    == "Transaction already in progress - only one transaction allowed at a time"
MsgCommit   == "No transaction in progress - cannot commit"
MsgRollback == "No transaction in progress - cannot rollback"

\* ------------------------------------------------ class InMemoryDB
\* __init__
init == [main_store        |-> EmptyDict,
         transaction_store |-> None,
         in_transaction    |-> FALSE]

\* get as it would be if it looked in the pending buffer first
get_reads_pending(self, key) ==
    [self |-> self,
     out  |-> Return(IF self.in_transaction
                     THEN dict_get(self.transaction_store, key,
                                   dict_get(self.main_store, key, None))
                     ELSE dict_get(self.main_store, key, None))]

\* get as it would be with pop(key, None) in place of get(key, None)
get_pops(self, key) ==
    [self |-> [self EXCEPT !.main_store =
                  Dict([k \in DOMAIN @.d \ {key} |-> @.d[k]])],
     out  |-> Return(dict_get(self.main_store, key, None))]

get(self, key) ==
    [self |-> self, out |-> Return(dict_get(self.main_store, key, None))]

\* put as it would be if it opened a transaction itself instead of raising
put_autobegin(self, key, val) ==
    IF ~self.in_transaction
    THEN [self |-> [self EXCEPT !.in_transaction = TRUE,
                                !.transaction_store = Dict([k \in {key} |-> val])],
          out  |-> Return(None)]
    ELSE [self |-> [self EXCEPT !.transaction_store = dict_setitem(@, key, val)],
          out  |-> Return(None)]

\* put as it would be if it also wrote the committed store
put_writes_through(self, key, val) ==
    IF ~self.in_transaction
    THEN [self |-> self, out |-> Raise(MsgPut)]
    ELSE [self |-> [self EXCEPT !.transaction_store = dict_setitem(@, key, val),
                                !.main_store = dict_setitem(@, key, val)],
          out  |-> Return(None)]

\* put as it would be if it made a new buffer holding only this write
put_replaces_buffer(self, key, val) ==
    IF ~self.in_transaction
    THEN [self |-> self, out |-> Raise(MsgPut)]
    ELSE [self |-> [self EXCEPT !.transaction_store = Dict([k \in {key} |-> val])],
          out  |-> Return(None)]

put(self, key, val) ==
    IF ~self.in_transaction
    THEN [self |-> self, out |-> Raise(MsgPut)]
    ELSE [self |-> [self EXCEPT !.transaction_store = dict_setitem(@, key, val)],
          out  |-> Return(None)]

\* begin_transaction as it would be with the assignments ahead of the check
begin_resets_then_raises(self) ==
    IF self.in_transaction
    THEN [self |-> [self EXCEPT !.transaction_store = EmptyDict],
          out  |-> Raise(MsgBegin)]
    ELSE [self |-> [self EXCEPT !.in_transaction = TRUE,
                                !.transaction_store = EmptyDict],
          out  |-> Return(None)]

\* begin_transaction as it would be without its check
begin_noguard(self) ==
    [self |-> [self EXCEPT !.in_transaction = TRUE,
                           !.transaction_store = EmptyDict],
     out  |-> Return(None)]

\* begin_transaction as it would be if the buffer started as a copy of the
\* committed store
begin_copies_main(self) ==
    IF self.in_transaction
    THEN [self |-> self, out |-> Raise(MsgBegin)]
    ELSE [self |-> [self EXCEPT !.in_transaction = TRUE,
                                !.transaction_store = self.main_store],
          out  |-> Return(None)]

begin_transaction(self) ==
    IF self.in_transaction
    THEN [self |-> self, out |-> Raise(MsgBegin)]
    ELSE [self |-> [self EXCEPT !.in_transaction = TRUE,
                                !.transaction_store = EmptyDict],
          out  |-> Return(None)]

\* for key, value in self._transaction_store.items(): self._main_store[key] = value
\* (todo is the set of keys the loop has still to visit)
RECURSIVE commit_loop(_, _, _)
commit_loop(main, pending, todo) ==
    IF todo = {} THEN main
    ELSE LET key == CHOOSE k \in todo : TRUE IN
         commit_loop(dict_setitem(main, key, pending.d[key]), pending, todo \ {key})

\* commit as it would be if it replaced the committed store by the buffer
commit_replaces(self) ==
    IF ~self.in_transaction
    THEN [self |-> self, out |-> Raise(MsgCommit)]
    ELSE [self |-> [main_store        |-> self.transaction_store,
                    in_transaction    |-> FALSE,
                    transaction_store |-> None],
          out  |-> Return(None)]

\* commit as it would be without its check: None has no items()
commit_noguard(self) ==
    IF ~self.in_transaction
    THEN [self |-> self,
          out  |-> [kind |-> "raise", type |-> "AttributeError",
                    msg  |-> "'NoneType' object has no attribute 'items'"]]
    ELSE [self |-> [main_store        |-> commit_loop(self.main_store,
                                                      self.transaction_store,
                                                      DOMAIN self.transaction_store.d),
                    in_transaction    |-> FALSE,
                    transaction_store |-> None],
          out  |-> Return(None)]

commit(self) ==
    IF ~self.in_transaction
    THEN [self |-> self, out |-> Raise(MsgCommit)]
    ELSE [self |-> [main_store        |-> commit_loop(self.main_store,
                                                      self.transaction_store,
                                                      DOMAIN self.transaction_store.d),
                    in_transaction    |-> FALSE,
                    transaction_store |-> None],
          out  |-> Return(None)]

\* rollback as it would be if it applied the buffer like commit
rollback_applies(self) ==
    IF ~self.in_transaction
    THEN [self |-> self, out |-> Raise(MsgRollback)]
    ELSE [self |-> [main_store        |-> commit_loop(self.main_store,
                                                      self.transaction_store,
                                                      DOMAIN self.transaction_store.d),
                    in_transaction    |-> FALSE,
                    transaction_store |-> None],
          out  |-> Return(None)]

\* rollback as it would be without its check
rollback_noguard(self) ==
    [self |-> [self EXCEPT !.in_transaction = FALSE,
                           !.transaction_store = None],
     out  |-> Return(None)]

\* rollback as it would be if it cleared the flag only
rollback_keeps_buffer(self) ==
    IF ~self.in_transaction
    THEN [self |-> self, out |-> Raise(MsgRollback)]
    ELSE [self |-> [self EXCEPT !.in_transaction = FALSE],
          out  |-> Return(None)]

rollback(self) ==
    IF ~self.in_transaction
    THEN [self |-> self, out |-> Raise(MsgRollback)]
    ELSE [self |-> [self EXCEPT !.in_transaction = FALSE,
                                !.transaction_store = None],
          out  |-> Return(None)]

\* --------------------------------------- InMemoryDB objects on a heap
\* The same methods with Python's reference semantics: a dict is a cell of
\* the heap, an attribute holding a dict holds the cell's reference, and
\* {} allocates a cell.  A cell that no attribute refers to any more is freed.
Instances == {1, 2}
Refs == 1..4
Free == [t |-> "free"]
Ref(r) == [t |-> "ref", at |-> r]

new_dict(heap) == CHOOSE r \in Refs : heap[r] = Free /\ \A q \in 1..(r - 1) : heap[q] # Free

\* __init__ as it would be if _main_store were one dict shared by the class
h_init_shared(heap) ==
    [heap |-> IF heap[1] = Free THEN [heap EXCEPT ![1] = EmptyDict] ELSE heap,
     self |-> [main_store |-> Ref(1), transaction_store |-> None, in_transaction |-> FALSE]]

h_init(heap) ==
    LET r == new_dict(heap) IN
    [heap |-> [heap EXCEPT ![r] = EmptyDict],
     self |-> [main_store |-> Ref(r), transaction_store |-> None, in_transaction |-> FALSE]]

h_get(heap, self, key) ==
    [heap |-> heap, self |-> self,
     out  |-> Return(dict_get(heap[self.main_store.at], key, None))]

h_put(heap, self, key, val) ==
    IF ~self.in_transaction
    THEN [heap |-> heap, self |-> self, out |-> Raise(MsgPut)]
    ELSE [heap |-> [heap EXCEPT ![self.transaction_store.at] = dict_setitem(@, key, val)],
          self |-> self,
          out  |-> Return(None)]

h_begin_transaction(heap, self) ==
    IF self.in_transaction
    THEN [heap |-> heap, self |-> self, out |-> Raise(MsgBegin)]
    ELSE LET r == new_dict(heap) IN
         [heap |-> [heap EXCEPT ![r] = EmptyDict],
          self |-> [self EXCEPT !.in_transaction = TRUE, !.transaction_store = Ref(r)],
          out  |-> Return(None)]

h_commit(heap, self) ==
    IF ~self.in_transaction
    THEN [heap |-> heap, self |-> self, out |-> Raise(MsgCommit)]
    ELSE LET pending == heap[self.transaction_store.at] IN
         [heap |-> [heap EXCEPT ![self.main_store.at] =
                                   commit_loop(@, pending, DOMAIN pending.d),
                                ![self.transaction_store.at] = Free],
          self |-> [self EXCEPT !.in_transaction = FALSE, !.transaction_store = None],
          out  |-> Return(None)]

h_rollback(heap, self) ==
    IF ~self.in_transaction
    THEN [heap |-> heap, self |-> self, out |-> Raise(MsgRollback)]
    ELSE [heap |-> [heap EXCEPT ![self.transaction_store.at] = Free],
          self |-> [self EXCEPT !.in_transaction = FALSE, !.transaction_store = None],
          out  |-> Return(None)]

\* ------------------------------------- the tagged two-state machine
\* The machine of the design: a committed mapping and a state that is either
\* {Idle} or {Open, buffer}.  Mappings are functions from the keys they hold
\* to integers; an error is InvalidOperation with its reason.
Idle == [tag |-> "Idle"]
Open(buffer) == [tag |-> "Open", buffer |-> buffer]
EmptyMap == [k \in {} |-> 0]
MapSet(m, key, v) == [k \in DOMAIN m \cup {key} |-> IF k = key THEN v ELSE m[k]]

Unit == [kind |-> "unit"]
Absent == [kind |-> "absent"]
Value(v) == [kind |-> "value", v |-> v]
InvalidOperation(reason) == [kind |-> "InvalidOperation", reason |-> reason]

t_init == [committed |-> EmptyMap, state |-> Idle]

t_get(m, key) ==
    [m |-> m, out |-> IF key \in DOMAIN m.committed
                      THEN Value(m.committed[key]) ELSE Absent]

t_put(m, key, v) ==
    IF m.state.tag = "Idle"
    THEN [m |-> m, out |-> InvalidOperation("write outside transaction")]
    ELSE [m |-> [m EXCEPT !.state = Open(MapSet(m.state.buffer, key, v))],
          out |-> Unit]

t_begin(m) ==
    IF m.state.tag = "Open"
    THEN [m |-> m, out |-> InvalidOperation("transaction already in progress")]
    ELSE [m |-> [m EXCEPT !.state = Open(EmptyMap)], out |-> Unit]

t_commit(m) ==
    IF m.state.tag = "Idle"
    THEN [m |-> m, out |-> InvalidOperation("no transaction in progress")]
    ELSE [m |-> [committed |-> [k \in DOMAIN m.committed \cup DOMAIN m.state.buffer |->
                                  IF k \in DOMAIN m.state.buffer
                                  THEN m.state.buffer[k] ELSE m.committed[k]],
                 state     |-> Idle],
          out |-> Unit]

t_rollback(m) ==
    IF m.state.tag = "Idle"
    THEN [m |-> m, out |-> InvalidOperation("no transaction in progress")]
    ELSE [m |-> [m EXCEPT !.state = Idle], out |-> Unit]

t_call(m, op, args) ==
    CASE op = "get" -> t_get(m, args[1])
      [] op = "put" -> t_put(m, args[1], args[2].v)
      [] op = "begin_transaction" -> t_begin(m)
      [] op = "commit" -> t_commit(m)
      [] op = "rollback" -> t_rollback(m)

\* ------------------------------------------------------------- state
VARIABLES main_store, transaction_store, in_transaction,
          last, snap, lastPut, overwrote, rebegun, ended, opened, getRun, committedKeys,
          tagged, tout,
          heap, objs,
          pc, frame, res, useLock, active

store == <<main_store, transaction_store, in_transaction>>
vars == <<main_store, transaction_store, in_transaction,
          last, snap, lastPut, overwrote, rebegun, ended, opened, getRun, committedKeys,
          tagged, tout, heap, objs, pc, frame, res, useLock, active>>

Self == [main_store        |-> main_store,
         transaction_store |-> transaction_store,
         in_transaction    |-> in_transaction]

\* history of the caller, not state of the object; what it records of a
\* transaction is kept until the call that follows the transaction's end:
\*   last          the most recent call and its outcome
\*   snap          the object as it was just before the most recent successful begin
\*   lastPut       for each key, the value of the latest put of that key that
\*                 returned since the most recent successful begin (None if none)
\*   overwrote     one of those puts replaced a different value put before it
\*   rebegun       a begin was refused since the most recent successful begin
\*   ended         how the most recent transaction stands: "never", "open",
\*                 "commit" or "rollback", and "past" once a call has
\*                 followed its end
\*   opened        the number of transactions begun and not yet ended by a
\*                 commit or rollback that returned (counted up to 2)
\*   getRun        the values returned by the current run of consecutive get
\*                 calls on one key
\*   committedKeys the keys put in a transaction that later committed
\* run side by side with the object, on the same calls:
\*   tagged        the tagged two-state machine
\*   tout          what the tagged machine answered to the most recent call
\* used by the specification of two objects only:
\*   heap          the dict cells
\*   objs          the attributes of each object
NoHeap == heap = [r \in Refs |-> Free] /\ objs = <<>>

\* used by the specifications of statement steps only:
\*   pc            for each caller, the line it is about to execute (0: not in a call)
\*   frame         for each caller, the locals of its running call
\*   res           the most recent finished call and its outcome
\*   useLock       the callers hold one exclusive lock for the whole of each call
\*   active        the callers that make calls
Threads == {1, 2}
NoFrame == [op |-> "none"]
NoThreads ==
    /\ pc = [t \in Threads |-> 0]
    /\ frame = [t \in Threads |-> NoFrame]
    /\ res = [op |-> "none", out |-> Return(None)]
    /\ useLock = FALSE
    /\ active = {}

InitOne ==
    /\ main_store = init.main_store
    /\ transaction_store = init.transaction_store
    /\ in_transaction = init.in_transaction
    /\ last = [op |-> "__init__", args |-> <<>>, out |-> Return(None)]
    /\ snap = init
    /\ lastPut = [k \in Keys |-> None]
    /\ overwrote = FALSE
    /\ rebegun = FALSE
    /\ ended = "never"
    /\ opened = 0
    /\ getRun = <<>>
    /\ committedKeys = {}
    /\ tagged = t_init
    /\ tout = Unit

Init == InitOne /\ NoHeap /\ NoThreads

Call(op, args, r) ==
    /\ main_store' = r.self.main_store
    /\ transaction_store' = r.self.transaction_store
    /\ in_transaction' = r.self.in_transaction
    /\ last' = [op |-> op, args |-> args, out |-> r.out]
    /\ tagged' = t_call(tagged, op, args).m
    /\ tout' = t_call(tagged, op, args).out
    /\ UNCHANGED <<heap, objs, pc, frame, res, useLock, active>>

Returned(r) == r.out.kind = "return"

Written == {k \in Keys : lastPut[k] # None}

Over == ended \in {"commit", "rollback"}

Forget ==
    /\ snap' = init
    /\ lastPut' = [k \in Keys |-> None]
    /\ overwrote' = FALSE
    /\ rebegun' = FALSE
    /\ ended' = "past"

SameGet(key) == last.op = "get" /\ last.args = <<key>>

Get(key) ==
    LET r == get(Self, key) IN
    /\ SameGet(key) => Len(getRun) < MaxGets
    /\ Call("get", <<key>>, r)
    /\ getRun' = IF SameGet(key) THEN Append(getRun, r.out) ELSE <<r.out>>
    /\ IF Over THEN Forget ELSE UNCHANGED <<snap, lastPut, overwrote, rebegun, ended>>
    /\ UNCHANGED <<opened, committedKeys>>

Put(key, val) ==
    LET r == put(Self, key, val) IN
    /\ Call("put", <<key, val>>, r)
    /\ IF Over
       THEN Forget
       ELSE /\ lastPut' = IF Returned(r) THEN [lastPut EXCEPT ![key] = val] ELSE lastPut
            /\ overwrote' = (overwrote \/ (Returned(r) /\ lastPut[key] \notin {None, val}))
            /\ UNCHANGED <<snap, rebegun, ended>>
    /\ getRun' = <<>>
    /\ UNCHANGED <<opened, committedKeys>>

BeginTransaction ==
    LET r == begin_transaction(Self) IN
    /\ Call("begin_transaction", <<>>, r)
    /\ IF Returned(r)
       THEN /\ snap' = Self
            /\ lastPut' = [k \in Keys |-> None]
            /\ overwrote' = FALSE
            /\ rebegun' = FALSE
            /\ ended' = "open"
            /\ opened' = IF opened < 2 THEN opened + 1 ELSE opened
       ELSE /\ rebegun' = TRUE
            /\ UNCHANGED <<snap, lastPut, overwrote, ended, opened>>
    /\ getRun' = <<>>
    /\ UNCHANGED committedKeys

Commit ==
    LET r == commit(Self) IN
    /\ Call("commit", <<>>, r)
    /\ IF Over
       THEN Forget
       ELSE /\ ended' = IF Returned(r) THEN "commit" ELSE ended
            /\ UNCHANGED <<snap, lastPut, overwrote, rebegun>>
    /\ opened' = IF Returned(r) /\ opened > 0 THEN opened - 1 ELSE opened
    /\ committedKeys' = IF Returned(r)
                        THEN committedKeys \cup Written ELSE committedKeys
    /\ getRun' = <<>>

Rollback ==
    LET r == rollback(Self) IN
    /\ Call("rollback", <<>>, r)
    /\ IF Over
       THEN Forget
       ELSE /\ ended' = IF Returned(r) THEN "rollback" ELSE ended
            /\ UNCHANGED <<snap, lastPut, overwrote, rebegun>>
    /\ opened' = IF Returned(r) /\ opened > 0 THEN opened - 1 ELSE opened
    /\ getRun' = <<>>
    /\ UNCHANGED committedKeys

Next ==
    \/ \E key \in Keys : Get(key)
    \/ \E key \in Keys, val \in Vals : Put(key, val)
    \/ BeginTransaction
    \/ Commit
    \/ Rollback

Spec == Init /\ [][Next]_vars

\* ------------------------------------------------- two objects
oneVars == <<main_store, transaction_store, in_transaction,
             snap, lastPut, overwrote, rebegun, ended, opened, getRun, committedKeys,
             tagged, tout>>

\* inmemoryDB = InMemoryDB(), twice
InitTwo ==
    LET a == h_init([r \in Refs |-> Free])
        b == h_init(a.heap) IN
    /\ InitOne
    /\ heap = b.heap
    /\ objs = <<a.self, b.self>>
    /\ NoThreads

CallOn(i, op, args, r) ==
    /\ heap' = r.heap
    /\ objs' = [objs EXCEPT ![i] = r.self]
    /\ last' = [op |-> op, args |-> args, out |-> r.out, obj |-> i]
    /\ UNCHANGED <<oneVars, pc, frame, res, useLock, active>>

GetOn(i, key) == CallOn(i, "get", <<key>>, h_get(heap, objs[i], key))

PutOn(i, key, val) == CallOn(i, "put", <<key, val>>, h_put(heap, objs[i], key, val))

BeginTransactionOn(i) ==
    CallOn(i, "begin_transaction", <<>>, h_begin_transaction(heap, objs[i]))

CommitOn(i) == CallOn(i, "commit", <<>>, h_commit(heap, objs[i]))

RollbackOn(i) == CallOn(i, "rollback", <<>>, h_rollback(heap, objs[i]))

NextTwo ==
    \/ \E i \in Instances, key \in KeysSmall : GetOn(i, key)
    \/ \E i \in Instances, key \in KeysSmall, val \in ValsSmall : PutOn(i, key, val)
    \/ \E i \in Instances : BeginTransactionOn(i)
    \/ \E i \in Instances : CommitOn(i)
    \/ \E i \in Instances : RollbackOn(i)

SpecTwo == InitTwo /\ [][NextTwo]_vars

\* ------------------------------------------- statement by statement
\* One object, its methods executed one statement at a time by the callers
\* in active; a step is named by the source line it executes.
histVars == <<last, snap, lastPut, overwrote, rebegun, ended, opened, getRun,
              committedKeys, tagged, tout, heap, objs>>

RaiseT(type, msg) == [kind |-> "raise", type |-> type, msg |-> msg]

\* the first line of each method
Entry(op) ==
    CASE op = "get" -> 40
      [] op = "put" -> 56
      [] op = "begin_transaction" -> 72
      [] op = "commit" -> 88
      [] op = "rollback" -> 109

\* the exclusive lock of the design: a call starts only when no call is running
LockFree(t) == useLock => \A u \in Threads : pc[u] = 0

StartCall(t, op, args) ==
    /\ pc[t] = 0
    /\ LockFree(t)
    /\ pc' = [pc EXCEPT ![t] = Entry(op)]
    /\ frame' = [frame EXCEPT ![t] = [op |-> op, args |-> args, it |-> None,
                                      item |-> None, writes |-> [k \in {} |-> 0]]]
    /\ UNCHANGED <<store, res>>

Goto(t, line) == pc' = [pc EXCEPT ![t] = line] /\ UNCHANGED res

\* an iterator over a dict that stops being the pending buffer keeps that dict
Attached == [t |-> "attached"]

Kept(f) ==
    IF f.op = "commit" /\ f.it # None /\ f.it.of = Attached
    THEN [f EXCEPT !.it.of = transaction_store]
    ELSE f

\* return or raise: the call of t ends
Finish(t, out) ==
    /\ pc' = [pc EXCEPT ![t] = 0]
    /\ res' = [op |-> frame[t].op, out |-> out]

Drop(t) == frame' = [frame EXCEPT ![t] = NoFrame]

\* return self._main_store.get(key, None)
L40(t) ==
    /\ pc[t] = 40
    /\ Finish(t, Return(dict_get(main_store, frame[t].args[1], None)))
    /\ Drop(t)
    /\ UNCHANGED store

\* if not self._in_transaction: raise Exception(...)
L56(t) ==
    /\ pc[t] = 56
    /\ IF ~in_transaction
       THEN Finish(t, Raise(MsgPut)) /\ Drop(t)
       ELSE Goto(t, 60) /\ UNCHANGED frame
    /\ UNCHANGED store

\* self._transaction_store[key] = val
L60(t) ==
    /\ pc[t] = 60
    /\ IF transaction_store = None
       THEN /\ Finish(t, RaiseT("TypeError",
                                "'NoneType' object does not support item assignment"))
            /\ UNCHANGED store
       ELSE /\ transaction_store' =
                  dict_setitem(transaction_store, frame[t].args[1], frame[t].args[2])
            /\ Finish(t, Return(None))
            /\ UNCHANGED <<main_store, in_transaction>>
    /\ Drop(t)

\* if self._in_transaction: raise Exception(...)
L72(t) ==
    /\ pc[t] = 72
    /\ IF in_transaction
       THEN Finish(t, Raise(MsgBegin)) /\ Drop(t)
       ELSE Goto(t, 75) /\ UNCHANGED frame
    /\ UNCHANGED store

\* self._in_transaction = True
L75(t) ==
    /\ pc[t] = 75
    /\ in_transaction' = TRUE
    /\ Goto(t, 76)
    /\ UNCHANGED <<main_store, transaction_store, frame>>

\* self._transaction_store = {}
L76(t) ==
    /\ pc[t] = 76
    /\ transaction_store' = EmptyDict
    /\ Finish(t, Return(None))
    /\ frame' = [u \in Threads |-> IF u = t THEN NoFrame ELSE Kept(frame[u])]
    /\ UNCHANGED <<main_store, in_transaction>>

\* if not self._in_transaction: raise Exception(...)
L88(t) ==
    /\ pc[t] = 88
    /\ IF ~in_transaction
       THEN Finish(t, Raise(MsgCommit)) /\ Drop(t)
       ELSE Goto(t, 92) /\ UNCHANGED frame
    /\ UNCHANGED store

\* the loop header as it would be if it never moved on from a key
L92_restarts(t) ==
    /\ pc[t] = 92
    /\ IF transaction_store = None \/ DOMAIN transaction_store.d = {}
       THEN Goto(t, 96) /\ UNCHANGED frame
       ELSE \E key \in DOMAIN transaction_store.d :
               /\ Goto(t, 93)
               /\ frame' = [frame EXCEPT ![t].item = <<key, transaction_store.d[key]>>]
    /\ UNCHANGED store

\* for key, value in self._transaction_store.items():
\* the first time, items() is called on the buffer and the iterator made; every
\* time, the iterator is asked for its next item, in any order of the keys
L92(t) ==
    LET f == frame[t]
        it == IF f.it # None THEN f.it
              ELSE [of |-> Attached, used |-> Cardinality(DOMAIN transaction_store.d),
                    visited |-> {}]
        d == IF it.of = Attached THEN transaction_store ELSE it.of
    IN
    /\ pc[t] = 92
    /\ IF f.it = None /\ transaction_store = None
       THEN /\ Finish(t, RaiseT("AttributeError",
                                "'NoneType' object has no attribute 'items'"))
            /\ Drop(t)
       ELSE IF Cardinality(DOMAIN d.d) # it.used
       THEN /\ Finish(t, RaiseT("RuntimeError",
                                "dictionary changed size during iteration"))
            /\ Drop(t)
       ELSE IF DOMAIN d.d \ it.visited = {}
       THEN /\ Goto(t, 96)
            /\ frame' = [frame EXCEPT ![t] = [f EXCEPT !.it = None, !.item = None]]
       ELSE \E key \in DOMAIN d.d \ it.visited :
               /\ Goto(t, 93)
               /\ frame' = [frame EXCEPT ![t] =
                     [f EXCEPT !.it = [it EXCEPT !.visited = @ \cup {key}],
                               !.item = <<key, d.d[key]>>]]
    /\ UNCHANGED store

\* self._main_store[key] = value
L93(t) ==
    LET key == frame[t].item[1] IN
    /\ pc[t] = 93
    /\ main_store' = dict_setitem(main_store, key, frame[t].item[2])
    /\ Goto(t, 92)
    /\ frame' = [frame EXCEPT ![t].writes =
                    [k \in DOMAIN @ \cup {key} |->
                        IF k \notin DOMAIN @ THEN 1
                        ELSE IF k = key /\ @[k] < 2 THEN @[k] + 1 ELSE @[k]]]
    /\ UNCHANGED <<transaction_store, in_transaction>>

\* self._in_transaction = False
L96(t) ==
    /\ pc[t] = 96
    /\ in_transaction' = FALSE
    /\ Goto(t, 97)
    /\ UNCHANGED <<main_store, transaction_store, frame>>

\* self._transaction_store = None
L97(t) ==
    /\ pc[t] = 97
    /\ transaction_store' = None
    /\ Finish(t, Return(None))
    /\ frame' = [u \in Threads |-> IF u = t THEN NoFrame ELSE Kept(frame[u])]
    /\ UNCHANGED <<main_store, in_transaction>>

\* if not self._in_transaction: raise Exception(...)
L109(t) ==
    /\ pc[t] = 109
    /\ IF ~in_transaction
       THEN Finish(t, Raise(MsgRollback)) /\ Drop(t)
       ELSE Goto(t, 113) /\ UNCHANGED frame
    /\ UNCHANGED store

\* self._in_transaction = False
L113(t) ==
    /\ pc[t] = 113
    /\ in_transaction' = FALSE
    /\ Goto(t, 114)
    /\ UNCHANGED <<main_store, transaction_store, frame>>

\* the last line of rollback as it would be if it were missing
L114_keeps_buffer(t) ==
    /\ pc[t] = 114
    /\ Finish(t, Return(None))
    /\ Drop(t)
    /\ UNCHANGED store

\* self._transaction_store = None
L114(t) ==
    /\ pc[t] = 114
    /\ transaction_store' = None
    /\ Finish(t, Return(None))
    /\ frame' = [u \in Threads |-> IF u = t THEN NoFrame ELSE Kept(frame[u])]
    /\ UNCHANGED <<main_store, in_transaction>>

Continue(t) ==
    \/ L40(t)
    \/ L56(t) \/ L60(t)
    \/ L72(t) \/ L75(t) \/ L76(t)
    \/ L88(t) \/ L92(t) \/ L93(t) \/ L96(t) \/ L97(t)
    \/ L109(t) \/ L113(t) \/ L114(t)

Enter(t, K, V) ==
    \/ \E key \in K : StartCall(t, "get", <<key>>)
    \/ \E key \in K, val \in V : StartCall(t, "put", <<key, val>>)
    \/ StartCall(t, "begin_transaction", <<>>)
    \/ StartCall(t, "commit", <<>>)
    \/ StartCall(t, "rollback", <<>>)

\* the caller t executes the next statement of its running call
Run(t) == Continue(t) /\ UNCHANGED <<histVars, useLock, active>>

\* the caller t makes a call
Invoke(t, K, V) == Enter(t, K, V) /\ UNCHANGED <<histVars, useLock, active>>

Steps(K, V) == \E t \in active : Invoke(t, K, V) \/ Run(t)

\* two callers, with or without the lock
InitConc ==
    /\ InitOne
    /\ NoHeap
    /\ pc = [t \in Threads |-> 0]
    /\ frame = [t \in Threads |-> NoFrame]
    /\ res = [op |-> "none", out |-> Return(None)]
    /\ useLock \in BOOLEAN
    /\ active = Threads

NextConc == Steps(KeysSmall, ValsSmall)

SpecConc == InitConc /\ [][NextConc]_vars

\* one caller; a statement that can be executed is executed
InitSeq ==
    /\ InitOne
    /\ NoHeap
    /\ pc = [t \in Threads |-> 0]
    /\ frame = [t \in Threads |-> NoFrame]
    /\ res = [op |-> "none", out |-> Return(None)]
    /\ useLock = FALSE
    /\ active = {1}

NextSeq == Steps(Keys, Vals)

SpecSeq == InitSeq /\ [][NextSeq]_vars /\ \A t \in Threads : WF_vars(Run(t))

\* ------------------------------------------------------------ claims
\* what the caller's history says a key should hold
AtBegin(k) == dict_get(snap.main_store, k, None)

Expected(k) == IF k \in Written THEN lastPut[k] ELSE AtBegin(k)

Raised(msg) == last.out = [kind |-> "raise", type |-> "Exception", msg |-> msg]

RaisedNext(msg) == last'.out = [kind |-> "raise", type |-> "Exception", msg |-> msg]

\* C1: while a transaction is open, get(k) returns for every key k the value
\* k had in the committed store when the transaction began (None if it had
\* none), whatever has been put since.
C1_UncommittedInvisible ==
    in_transaction =>
        /\ \A k \in Keys : get(Self, k).out = Return(AtBegin(k))
        /\ last.op = "get" => last.out = Return(AtBegin(last.args[1]))

C1_Witness ==
    /\ in_transaction
    /\ last.op = "get"
    /\ last.args[1] \in Written
    /\ dict_contains(snap.main_store, last.args[1])
    /\ lastPut[last.args[1]] # AtBegin(last.args[1])

\* C2: after a successful commit, get(k) returns the last value put for k in
\* that transaction for every key written, and the pre-transaction value (or
\* None) for every key the transaction did not write.
C2_CommitAppliesLastWrites ==
    ended = "commit" => \A k \in Keys : get(Self, k).out = Return(Expected(k))

C2_Witness ==
    /\ ended = "commit"
    /\ last.op = "commit"
    /\ overwrote
    /\ \E k \in Keys : k \notin Written /\ dict_contains(snap.main_store, k)

\* C3: after a rollback the object is exactly as it was before begin: same
\* committed store, Idle, no pending buffer, and get answers as before begin.
C3_RollbackRestores ==
    ended = "rollback" =>
        /\ main_store = snap.main_store
        /\ in_transaction = FALSE
        /\ transaction_store = None
        /\ \A k \in Keys : get(Self, k).out = Return(AtBegin(k))

C3_Witness ==
    /\ ended = "rollback"
    /\ last.op = "rollback"
    /\ Written # {}
    /\ \E k \in Written :
          dict_contains(snap.main_store, k) /\ lastPut[k] # AtBegin(k)

\* C4: put called while no transaction is open raises the put error and
\* leaves the committed store, the pending buffer and the flag unchanged.
C4_PutIdleFails ==
    [][(~in_transaction /\ last'.op = "put") =>
          (RaisedNext(MsgPut) /\ UNCHANGED store)]_vars

C4_Witness ==
    /\ ~in_transaction
    /\ last.op = "put"
    /\ Raised(MsgPut)
    /\ main_store # EmptyDict

\* C5: begin called while a transaction is open raises the begin error and
\* leaves the pending buffer, the committed store and the flag unchanged, so
\* the following commit applies exactly the puts made since the original begin.
C5_BeginOpenFails ==
    /\ [][(in_transaction /\ last'.op = "begin_transaction") =>
             (RaisedNext(MsgBegin) /\ UNCHANGED store)]_vars
    /\ []((rebegun /\ last.op = "commit" /\ last.out.kind = "return") =>
             \A k \in Keys : dict_get(main_store, k, None) = Expected(k))

C5_Witness ==
    /\ rebegun
    /\ last.op = "commit"
    /\ last.out.kind = "return"
    /\ Written # {}

\* C6: commit and rollback called while Idle raise their error and change
\* nothing; a rollback after a successful commit keeps the committed values.
C6_EndIdleFails ==
    [][(~in_transaction /\ last'.op \in {"commit", "rollback"}) =>
          /\ RaisedNext(IF last'.op = "commit" THEN MsgCommit ELSE MsgRollback)
          /\ UNCHANGED store]_vars

C6_Witness ==
    /\ last.op = "rollback"
    /\ Raised(MsgRollback)
    /\ committedKeys # {}
    /\ \E k \in committedKeys : dict_contains(main_store, k)

\* C7: a new object is Idle with an empty committed store, and get(k) returns
\* None for every key that was not put in a transaction that later committed.
C7_UncommittedAbsent ==
    /\ last.op = "__init__" =>
          (~in_transaction /\ main_store = EmptyDict /\ transaction_store = None)
    /\ \A k \in Keys \ committedKeys : get(Self, k).out = Return(None)

C7_Witness ==
    /\ committedKeys # {}
    /\ in_transaction
    /\ last.op = "get"
    /\ last.args[1] \in Written \ committedKeys

\* C8: a call raises exactly when its precondition is violated: put, commit
\* and rollback exactly when Idle, begin exactly when Open, get never; what is
\* raised is always an Exception whose message names that precondition.
Reason(msg) ==
    CASE msg = "No transaction in progress - cannot call put() outside of a transaction"
           -> "write outside transaction"
      [] msg = "Transaction already in progress - only one transaction allowed at a time"
           -> "transaction already in progress"
      [] msg = "No transaction in progress - cannot commit"
           -> "no transaction in progress"
      [] msg = "No transaction in progress - cannot rollback"
           -> "no transaction in progress"
      [] OTHER -> "unknown"

Violated(op, open) ==
    CASE op = "put" -> ~open
      [] op \in {"commit", "rollback"} -> ~open
      [] op = "begin_transaction" -> open
      [] OTHER -> FALSE

ReasonFor(op) ==
    CASE op = "put" -> "write outside transaction"
      [] op = "begin_transaction" -> "transaction already in progress"
      [] OTHER -> "no transaction in progress"

C8_FailsIffPrecondition ==
    [][last'.op # "__init__" =>
          /\ (last'.out.kind = "raise") <=> Violated(last'.op, in_transaction)
          /\ last'.out.kind = "raise" =>
                /\ last'.out.type = "Exception"
                /\ Reason(last'.out.msg) = ReasonFor(last'.op)]_vars

C8_Witness ==
    /\ last.op = "commit"
    /\ last.out.kind = "raise"
    /\ committedKeys # {}

\* C9: get is a pure read: repeated get(k) calls with nothing in between
\* return the same value, and a get changes neither store nor flag.
C9_GetPure ==
    /\ [][last'.op = "get" => UNCHANGED store]_vars
    /\ [](\A i, j \in 1..Len(getRun) : getRun[i] = getRun[j])

C9_Witness ==
    /\ Len(getRun) = MaxGets
    /\ last.op = "get"
    /\ getRun[1].value # None
    /\ in_transaction
    /\ last.args[1] \in Written

\* C10: between calls, the pending buffer is present exactly when the
\* transaction flag is true.
C10_BufferIffFlag ==
    (transaction_store # None) <=> in_transaction

C10_Witness ==
    /\ last.op = "rollback"
    /\ last.out.kind = "return"
    /\ Written # {}
    /\ transaction_store = None
    /\ ~in_transaction

ReturnedNext == last'.out.kind = "return"

\* C11: the committed store changes only in a commit that returns, and then
\* it becomes the old store with every entry of the pending buffer copied in;
\* every other call, and every call that raises, leaves it as it was.
C11_OnlyCommitWrites ==
    [][/\ main_store' # main_store =>
             (in_transaction /\ last'.op = "commit" /\ ReturnedNext)
       /\ (in_transaction /\ last'.op = "commit") =>
             /\ DOMAIN main_store'.d = DOMAIN main_store.d \cup DOMAIN transaction_store.d
             /\ \A k \in DOMAIN main_store'.d :
                   main_store'.d[k] = IF k \in DOMAIN transaction_store.d
                                      THEN transaction_store.d[k]
                                      ELSE main_store.d[k]]_vars

C11_Witness ==
    /\ last.op = "commit"
    /\ last.out.kind = "return"
    /\ main_store # snap.main_store
    /\ \E k \in Keys : k \notin Written /\ dict_contains(main_store, k)

\* C12: the flag changes only from Idle to Open in a begin that returns and
\* from Open to Idle in a commit or rollback that returns; get and put never
\* change it; begin always succeeds when Idle and commit and rollback when
\* Open; never more than one transaction is open.
C12_TwoStateMachine ==
    /\ [][/\ in_transaction' # in_transaction =>
                /\ ReturnedNext
                /\ IF in_transaction
                   THEN last'.op \in {"commit", "rollback"}
                   ELSE last'.op = "begin_transaction"
          /\ last'.op \in {"get", "put"} => in_transaction' = in_transaction
          /\ (~in_transaction /\ last'.op = "begin_transaction") =>
                (ReturnedNext /\ in_transaction')
          /\ (in_transaction /\ last'.op \in {"commit", "rollback"}) =>
                (ReturnedNext /\ ~in_transaction')]_vars
    /\ [](opened = IF in_transaction THEN 1 ELSE 0)

C12_Witness ==
    /\ opened = 1
    /\ last.op = "begin_transaction"
    /\ last.out.kind = "return"
    /\ committedKeys # {}
    /\ snap.main_store # EmptyDict

\* C13: a put(k, v) in the Open state returns and sets the pending entry of
\* k to v; the other pending entries, the committed store and the flag stay
\* as they were.
C13_PutFrame ==
    [][(in_transaction /\ last'.op = "put") =>
          /\ ReturnedNext
          /\ main_store' = main_store
          /\ in_transaction' = in_transaction
          /\ DOMAIN transaction_store'.d =
                DOMAIN transaction_store.d \cup {last'.args[1]}
          /\ \A k \in DOMAIN transaction_store'.d :
                transaction_store'.d[k] = IF k = last'.args[1]
                                          THEN last'.args[2]
                                          ELSE transaction_store.d[k]]_vars

C13_Witness ==
    /\ in_transaction
    /\ last.op = "put"
    /\ overwrote
    /\ \E k \in Written : k # last.args[1]

\* C14: a begin that returns leaves an empty pending buffer, so a commit
\* applies only the puts made since that begin: a key the transaction did
\* not put keeps the value it had at begin, and a transaction without puts
\* commits without changing the committed store.
C14_BufferStartsEmpty ==
    /\ [][(last'.op = "begin_transaction" /\ ReturnedNext) =>
             transaction_store' = EmptyDict]_vars
    /\ [][(last'.op = "commit" /\ ReturnedNext /\ Written = {}) =>
             main_store' = main_store]_vars
    /\ []((last.op = "commit" /\ last.out.kind = "return") =>
             \A k \in Keys \ Written : dict_get(main_store, k, None) = AtBegin(k))

C14_Witness ==
    /\ last.op = "commit"
    /\ last.out.kind = "return"
    /\ Written = {}
    /\ main_store # EmptyDict
    /\ committedKeys # Keys

\* C19: no call removes a key from the committed store, so a key for which
\* get returns a value keeps returning one; the value get returns for a key
\* changes only in a commit that returns, of a transaction that put that key.
SelfNext == [main_store        |-> main_store',
             transaction_store |-> transaction_store',
             in_transaction    |-> in_transaction']

C19_CommittedKeysGrow ==
    [][\A k \in Keys :
          LET before == get(Self, k).out
              after  == get(SelfNext, k).out
          IN  /\ dict_contains(main_store, k) => dict_contains(main_store', k)
              /\ before.value # None => after.value # None
              /\ after # before =>
                    (last'.op = "commit" /\ ReturnedNext /\ k \in Written)]_vars

C19_Witness ==
    /\ in_transaction
    /\ last.op = "get"
    /\ last.out.value # None
    /\ lastPut[last.args[1]] \notin {None, last.out.value}
    /\ committedKeys = Keys

\* C17: the object and the tagged two-state machine, given the same calls,
\* answer every call alike (same value, same absence, same error with the
\* same reason) and hold the same committed mapping.
Seen(op, out) ==
    IF out.kind = "raise"
    THEN [kind |-> IF out.type = "Exception" THEN "InvalidOperation" ELSE out.type,
          reason |-> Reason(out.msg)]
    ELSE IF op # "get" THEN Unit
    ELSE IF out.value = None THEN Absent
    ELSE Value(out.value.v)

SeenStore(d) == [k \in DOMAIN d.d |-> d.d[k].v]

C17_SameAsTaggedMachine ==
    /\ Seen(last.op, last.out) = tout
    /\ SeenStore(main_store) = tagged.committed
    /\ in_transaction <=> tagged.state.tag = "Open"

C17_Witness ==
    /\ last.op = "get"
    /\ in_transaction
    /\ tout.kind = "value"
    /\ lastPut[last.args[1]] \notin {None, PyInt(tout.v)}
    /\ rebegun

\* C18: with two objects, a call on one (returning or raising) leaves the
\* other's committed store, pending buffer and flag as they were, and does to
\* its own object exactly what the same call does to an object that is alone.
Deref(h, ref) == IF ref = None THEN None ELSE h[ref.at]

ViewOf(i) == [main_store        |-> Deref(heap, objs[i].main_store),
              transaction_store |-> Deref(heap, objs[i].transaction_store),
              in_transaction    |-> objs[i].in_transaction]

ViewOfNext(i) == [main_store        |-> Deref(heap', objs'[i].main_store),
                  transaction_store |-> Deref(heap', objs'[i].transaction_store),
                  in_transaction    |-> objs'[i].in_transaction]

Alone(self, op, args) ==
    CASE op = "get" -> get(self, args[1])
      [] op = "put" -> put(self, args[1], args[2])
      [] op = "begin_transaction" -> begin_transaction(self)
      [] op = "commit" -> commit(self)
      [] op = "rollback" -> rollback(self)

C18_InstancesIndependent ==
    [][\A i \in Instances :
          last'.obj = i =>
             /\ \A j \in Instances \ {i} : ViewOfNext(j) = ViewOf(j)
             /\ ViewOfNext(i) = Alone(ViewOf(i), last'.op, last'.args).self
             /\ last'.out = Alone(ViewOf(i), last'.op, last'.args).out]_vars

C18_Witness ==
    /\ last.op = "commit"
    /\ last.out.kind = "return"
    /\ \E k \in KeysSmall :
          /\ dict_contains(ViewOf(last.obj).main_store, k)
          /\ \A j \in Instances \ {last.obj} :
                /\ ~dict_contains(ViewOf(j).main_store, k)
                /\ ViewOf(j).in_transaction
                /\ dict_contains(ViewOf(j).transaction_store, k)

\* C15: two callers whose statements interleave without a lock reach a state
\* where the flag is true and the buffer absent, in which a put that passed
\* the flag check finds no buffer (the witness).  When one exclusive lock is
\* held for the whole of each call: flag and buffer agree whenever no call is
\* running, they disagree only while the lock holder stands between its two
\* assignments, a put that passed the check always finds the buffer, and
\* nothing but the methods' own Exception is ever raised.
Disagree == ~((transaction_store # None) <=> in_transaction)

C15_LockGivesIsolation ==
    useLock =>
        /\ res.out.kind = "raise" => res.out.type = "Exception"
        /\ (\A t \in Threads : pc[t] = 0) => ~Disagree
        /\ Disagree => \E t \in Threads : pc[t] \in {76, 97, 114}
        /\ \A t \in Threads : pc[t] = 60 => transaction_store # None

C15_Witness ==
    /\ ~useLock
    /\ res.op = "put"
    /\ res.out.kind = "raise"
    /\ res.out.type = "TypeError"
    /\ in_transaction
    /\ transaction_store = None
    /\ \E t \in Threads : pc[t] = 76

\* C16: every call ends.  No statement of get, put, begin or rollback is
\* executed twice in a call; the only way back is from the body of commit's
\* loop to its header, and the loop writes each pending key once and no key
\* twice, after which commit ends the transaction and returns.
C16_CallsTerminate ==
    /\ \A t \in Threads : (pc[t] # 0) ~> (pc[t] = 0)
    /\ [][\A t \in Threads :
             /\ (pc[t] # 0 /\ pc'[t] # 0 /\ pc'[t] # pc[t]) =>
                   (pc'[t] > pc[t] \/ (pc[t] = 93 /\ pc'[t] = 92))
             /\ (pc[t] = 93 /\ pc'[t] # 93) =>
                   /\ frame[t].item[1] \notin DOMAIN frame[t].writes
                   /\ frame'[t].writes[frame[t].item[1]] = 1
             /\ (pc[t] = 97 /\ pc'[t] = 0) =>
                   /\ DOMAIN frame[t].writes = DOMAIN transaction_store.d
                   /\ \A k \in DOMAIN frame[t].writes : frame[t].writes[k] = 1
                   /\ ~in_transaction'
                   /\ transaction_store' = None
                   /\ res' = [op |-> "commit", out |-> Return(None)]]_vars

C16_Witness ==
    /\ pc[1] = 97
    /\ Cardinality(DOMAIN frame[1].writes) = NumKeys
    /\ main_store = transaction_store

====
